---- MODULE Spec2Model ----
(***************************************************************************)
(* The VotingRoom contract (src/Frontend/services/gaslessTransactions.ts,  *)
(* lines 199-780) as a state machine.  One variable per storage mapping,   *)
(* one action per external mutating function.  Every external function is  *)
(* a transaction: it either runs to its end or reverts with the message of *)
(* the first failing require.  For each function F the operator FError     *)
(* computes that message from the storage and the arguments ("" when no    *)
(* require fails); a reverted call writes nothing, so it is a stuttering   *)
(* step of the machine and the action F is the committing call.            *)
(*                                                                         *)
(* Room.title and Room.description are written once by the create calls    *)
(* and read by no require and no branch; they are not carried.             *)
(***************************************************************************)
EXTENDS Integers, Sequences, FiniteSets, TLC

VARIABLES rooms, roomCandidates, hasVoted, isParticipant, totalVotes,
          candidateVotes, clearResults, resultsPublished, roomCodes,
          roomCodeIndex, now

vars == <<rooms, roomCandidates, hasVoted, isParticipant, totalVotes,
          candidateVotes, clearResults, resultsPublished, roomCodes,
          roomCodeIndex, now>>

---------------------------------------------------------------------------
(* Bounds of the model *)

\* roomCodes.length is capped: create calls are drawn only while it is below
MaxRooms == 2
\* block.timestamp ranges over 0 .. MaxTime
MaxTime == 1
\* candidateCount is capped: candidates are added only up to MaxCand
MaxCand == 2

\* msg.sender of a call
Users == {"u1", "u2", "u3"}
\* maxParticipants arguments of the create calls
Caps == {0, 1, 2}
\* endTime arguments of the create calls
EndTimes == {0, 1}
\* roomCode arguments; the empty string is a string a caller may pass
Codes == {"", "R1"}
\* plaintext passwords passed to joinRoom
Passwords == {"", "a"}
\* (name, description, imageUrl) arguments of the candidate-adding calls
CandidateArgs == {[name |-> "A", description |-> "dA", imageUrl |-> "iA"],
                  [name |-> "B", description |-> "dB", imageUrl |-> "iB"]}
\* a uint32 as its two 16-bit halves, value = hi * 2^16 + lo
U32(hi, lo) == [hi |-> hi, lo |-> lo]
\* plaintext values a voter may have encrypted: 1 (the convention) and 2^32 - 1
VoteValues == {U32(0, 1), U32(65535, 65535)}
\* plaintext counts a creator may publish
ResultValues == {0, 7}
\* inputProof arguments of vote, as what FHE.fromExternal makes of them
Proofs == {"valid", "invalid"}

CandIds == 0 .. (MaxCand - 1)

---------------------------------------------------------------------------
(* Values *)

\* address(0), the creator of a room slot never written
NoAddress == "0x0"

\* bytes32(0), ethers.ZeroHash
ZeroHash == <<"bytes32", "0">>

\* keccak256(abi.encodePacked(password)): a bytes32 that differs from one
\* password to another and from bytes32(0) (collision-free)
Keccak(password) == <<"keccak256", password>>

\* passwordHash arguments of the create calls
PasswordHashes == {ZeroHash} \cup {Keccak(p) : p \in Passwords \ {""}}

\* the contract itself, as a party a ciphertext can be allowed to
This == "this"

\* uint32 addition losing the carry of the low half
U32AddNoCarry(a, b) == U32((a.hi + b.hi) % 65536, (a.lo + b.lo) % 65536)

\* uint32 addition, wrapping modulo 2^32
U32Add(a, b) ==
    LET lo == a.lo + b.lo
        hi == a.hi + b.hi + (lo \div 65536)
    IN U32(hi % 65536, lo % 65536)

\* euint32 handle 0: the votes field of a Candidate slot never written
NoHandle == [val |-> U32(0, 0), acl |-> {}, init |-> FALSE]

\* FHE.asEuint32(v): a fresh ciphertext nobody is allowed on yet
AsEuint32(v) == [val |-> v, acl |-> {}, init |-> TRUE]

\* FHE.allow(h, who) / FHE.allowThis(h)
Allow(h, who) == [h EXCEPT !.acl = @ \cup {who}]

\* FHE.add(a, b): a fresh ciphertext of the sum modulo 2^32
FheAdd(a, b) == [val |-> U32Add(a.val, b.val), acl |-> {}, init |-> TRUE]

\* the zero value of struct Room
NoRoom == [code |-> "", creator |-> NoAddress, maxParticipants |-> 0,
           participantCount |-> 0, endTime |-> 0, hasPassword |-> FALSE,
           passwordHash |-> ZeroHash, isActive |-> FALSE, isClosed |-> FALSE,
           candidateCount |-> 0]

\* the zero value of struct Candidate
NoCandidate == [name |-> "", description |-> "", imageUrl |-> "",
                votes |-> NoHandle, exists |-> FALSE]

\* bytes(s).length
StrLen(s) == Len(s)

---------------------------------------------------------------------------
(* Storage after deployment *)

Init ==
    /\ rooms = [c \in Codes |-> NoRoom]
    /\ roomCandidates = [c \in Codes |-> [i \in CandIds |-> NoCandidate]]
    /\ hasVoted = [c \in Codes |-> [u \in Users |-> FALSE]]
    /\ isParticipant = [c \in Codes |-> [u \in Users |-> FALSE]]
    /\ totalVotes = [c \in Codes |-> 0]
    /\ candidateVotes = [c \in Codes |-> [i \in CandIds |-> 0]]
    /\ clearResults = [c \in Codes |-> [i \in CandIds |-> 0]]
    /\ resultsPublished = [c \in Codes |-> FALSE]
    /\ roomCodes = <<>>
    /\ roomCodeIndex = [c \in Codes |-> 0]
    /\ now = 0

---------------------------------------------------------------------------
(* Modifiers *)

\* modifier roomExists
RoomExistsError(roomCode) ==
    IF StrLen(rooms[roomCode].code) > 0 THEN "" ELSE "Room does not exist"

\* modifier roomActive without its test of isClosed
RoomActiveErrorNoClosedCheck(roomCode) ==
    IF ~rooms[roomCode].isActive THEN "Room is not active"
    ELSE IF ~(rooms[roomCode].endTime > now) THEN "Room has ended"
    ELSE ""

\* modifier roomActive
RoomActiveError(roomCode) ==
    IF ~rooms[roomCode].isActive THEN "Room is not active"
    ELSE IF ~(rooms[roomCode].endTime > now) THEN "Room has ended"
    ELSE IF rooms[roomCode].isClosed THEN "Room is closed for new participants"
    ELSE ""

\* modifier hasNotVoted
HasNotVotedError(roomCode, sender) ==
    IF hasVoted[roomCode][sender] THEN "Already voted in this room" ELSE ""

\* modifier isRoomParticipant
IsRoomParticipantError(roomCode, sender) ==
    IF isParticipant[roomCode][sender] THEN ""
    ELSE "Not a participant in this room"

---------------------------------------------------------------------------
(* createRoom *)

\* createRoom without the require on the stored code
CreateRoomErrorNoCodeCheck(roomCode, maxParticipants, endTime) ==
    IF ~(endTime > now) THEN "End time must be in the future"
    ELSE IF ~(maxParticipants > 0) THEN "Max participants must be > 0"
    ELSE ""

CreateRoomError(roomCode, maxParticipants, endTime) ==
    IF ~(StrLen(rooms[roomCode].code) = 0) THEN "Room code already exists"
    ELSE IF ~(endTime > now) THEN "End time must be in the future"
    ELSE IF ~(maxParticipants > 0) THEN "Max participants must be > 0"
    ELSE ""

\* the Room struct the create calls store, after the creator was counted
NewRoom(sender, roomCode, maxParticipants, endTime, hasPassword, passwordHash) ==
    [code |-> roomCode, creator |-> sender, maxParticipants |-> maxParticipants,
     participantCount |-> 1, endTime |-> endTime, hasPassword |-> hasPassword,
     passwordHash |-> passwordHash, isActive |-> TRUE, isClosed |-> FALSE,
     candidateCount |-> 0]

createRoom(sender, roomCode, maxParticipants, endTime, hasPassword, passwordHash) ==
    /\ CreateRoomError(roomCode, maxParticipants, endTime) = ""
    /\ rooms' = [rooms EXCEPT ![roomCode] =
                    NewRoom(sender, roomCode, maxParticipants, endTime,
                            hasPassword, passwordHash)]
    /\ roomCodes' = Append(roomCodes, roomCode)
    /\ roomCodeIndex' = [roomCodeIndex EXCEPT ![roomCode] = Len(roomCodes)]
    /\ isParticipant' = [isParticipant EXCEPT ![roomCode][sender] = TRUE]
    /\ UNCHANGED <<roomCandidates, hasVoted, totalVotes, candidateVotes,
                   clearResults, resultsPublished, now>>

---------------------------------------------------------------------------
(* joinRoom *)

\* joinRoom without the require on isParticipant
JoinRoomErrorNoParticipantCheck(sender, roomCode, password) ==
    IF RoomExistsError(roomCode) # "" THEN RoomExistsError(roomCode)
    ELSE IF RoomActiveError(roomCode) # "" THEN RoomActiveError(roomCode)
    ELSE IF ~(rooms[roomCode].participantCount < rooms[roomCode].maxParticipants)
         THEN "Room is full"
    ELSE IF rooms[roomCode].hasPassword
            /\ ~(Keccak(password) = rooms[roomCode].passwordHash)
         THEN "Invalid password"
    ELSE ""

\* joinRoom without the require on participantCount
JoinRoomErrorNoFullCheck(sender, roomCode, password) ==
    IF RoomExistsError(roomCode) # "" THEN RoomExistsError(roomCode)
    ELSE IF RoomActiveError(roomCode) # "" THEN RoomActiveError(roomCode)
    ELSE IF isParticipant[roomCode][sender] THEN "Already a participant"
    ELSE IF rooms[roomCode].hasPassword
            /\ ~(Keccak(password) = rooms[roomCode].passwordHash)
         THEN "Invalid password"
    ELSE ""

\* joinRoom checking the password before the participant flag and the count
JoinRoomErrorPasswordFirst(sender, roomCode, password) ==
    IF RoomExistsError(roomCode) # "" THEN RoomExistsError(roomCode)
    ELSE IF RoomActiveError(roomCode) # "" THEN RoomActiveError(roomCode)
    ELSE IF rooms[roomCode].hasPassword
            /\ ~(Keccak(password) = rooms[roomCode].passwordHash)
         THEN "Invalid password"
    ELSE IF isParticipant[roomCode][sender] THEN "Already a participant"
    ELSE IF ~(rooms[roomCode].participantCount < rooms[roomCode].maxParticipants)
         THEN "Room is full"
    ELSE ""

\* joinRoom comparing the hashes whatever hasPassword says
JoinRoomErrorIgnoresHasPassword(sender, roomCode, password) ==
    IF RoomExistsError(roomCode) # "" THEN RoomExistsError(roomCode)
    ELSE IF RoomActiveError(roomCode) # "" THEN RoomActiveError(roomCode)
    ELSE IF isParticipant[roomCode][sender] THEN "Already a participant"
    ELSE IF ~(rooms[roomCode].participantCount < rooms[roomCode].maxParticipants)
         THEN "Room is full"
    ELSE IF ~(Keccak(password) = rooms[roomCode].passwordHash)
         THEN "Invalid password"
    ELSE ""

JoinRoomError(sender, roomCode, password) ==
    IF RoomExistsError(roomCode) # "" THEN RoomExistsError(roomCode)
    ELSE IF RoomActiveError(roomCode) # "" THEN RoomActiveError(roomCode)
    ELSE IF isParticipant[roomCode][sender] THEN "Already a participant"
    ELSE IF ~(rooms[roomCode].participantCount < rooms[roomCode].maxParticipants)
         THEN "Room is full"
    ELSE IF rooms[roomCode].hasPassword
            /\ ~(Keccak(password) = rooms[roomCode].passwordHash)
         THEN "Invalid password"
    ELSE ""

\* a room is closed only by a join past its last place
NowFullStrict(roomCode, participantCount) ==
    participantCount > rooms[roomCode].maxParticipants

\* "Close room if it's now full", on the incremented count
NowFull(roomCode, participantCount) ==
    participantCount >= rooms[roomCode].maxParticipants

joinRoom(sender, roomCode, password) ==
    /\ JoinRoomError(sender, roomCode, password) = ""
    /\ isParticipant' = [isParticipant EXCEPT ![roomCode][sender] = TRUE]
    /\ LET count == rooms[roomCode].participantCount + 1
       IN rooms' = [rooms EXCEPT
                      ![roomCode].participantCount = count,
                      ![roomCode].isClosed =
                          IF NowFull(roomCode, count) THEN TRUE ELSE @]
    /\ UNCHANGED <<roomCandidates, hasVoted, totalVotes, candidateVotes,
                   clearResults, resultsPublished, roomCodes, roomCodeIndex, now>>

---------------------------------------------------------------------------
(* createRoomWithCandidatesBatch *)

\* the three array arguments of the batch calls: a list of candidates as
\* three arrays of one length, and the same with the descriptions or the
\* image URLs one entry short
SeqsUpTo(S, n) == UNION {[1 .. k -> S] : k \in 0 .. n}

Names(l) == [i \in 1 .. Len(l) |-> l[i].name]
Descriptions(l) == [i \in 1 .. Len(l) |-> l[i].description]
ImageUrls(l) == [i \in 1 .. Len(l) |-> l[i].imageUrl]
Front(q) == SubSeq(q, 1, Len(q) - 1)

BatchArgsOf(lists) ==
    {<<Names(l), Descriptions(l), ImageUrls(l)>> : l \in lists}
    \cup {<<Names(l), Front(Descriptions(l)), ImageUrls(l)>> :
             l \in lists \ {<<>>}}
    \cup {<<Names(l), Descriptions(l), Front(ImageUrls(l))>> :
             l \in lists \ {<<>>}}

\* the batch calls carry up to two candidates
BatchArgs == BatchArgsOf(SeqsUpTo(CandidateArgs, 2))

CreateRoomWithCandidatesBatchError(roomCode, maxParticipants, endTime, candidateNames, candidateDescriptions, candidateImageUrls) ==
    IF ~(StrLen(rooms[roomCode].code) = 0) THEN "Room code already exists"
    ELSE IF ~(endTime > now) THEN "End time must be in the future"
    ELSE IF ~(maxParticipants > 0) THEN "Max participants must be > 0"
    ELSE IF ~(/\ Len(candidateNames) = Len(candidateDescriptions)
              /\ Len(candidateNames) = Len(candidateImageUrls))
         THEN "Arrays length mismatch"
    ELSE IF ~(Len(candidateNames) >= 2) THEN "At least 2 candidates required"
    ELSE ""

\* the Candidate struct the candidate-adding calls store: an encrypted zero
\* the contract and the caller (the creator) are allowed on
NewCandidate(sender, name, description, imageUrl) ==
    [name |-> name, description |-> description, imageUrl |-> imageUrl,
     votes |-> Allow(Allow(AsEuint32(U32(0, 0)), This), sender),
     exists |-> TRUE]

\* the loop of the batch calls: candidate i of the arrays goes to slot
\* first + i - 1, the other slots keep what they hold
WithCandidates(slots, first, sender, names, descriptions, imageUrls) ==
    [id \in DOMAIN slots |->
        IF id >= first /\ id < first + Len(names)
        THEN NewCandidate(sender, names[id - first + 1],
                          descriptions[id - first + 1],
                          imageUrls[id - first + 1])
        ELSE slots[id]]

createRoomWithCandidatesBatch(sender, roomCode, maxParticipants, endTime, hasPassword, passwordHash, candidateNames, candidateDescriptions, candidateImageUrls) ==
    /\ CreateRoomWithCandidatesBatchError(roomCode, maxParticipants, endTime,
           candidateNames, candidateDescriptions, candidateImageUrls) = ""
    /\ Len(candidateNames) <= MaxCand
    /\ rooms' = [rooms EXCEPT ![roomCode] =
                    [NewRoom(sender, roomCode, maxParticipants, endTime,
                             hasPassword, passwordHash)
                     EXCEPT !.candidateCount = Len(candidateNames)]]
    /\ roomCodes' = Append(roomCodes, roomCode)
    /\ roomCodeIndex' = [roomCodeIndex EXCEPT ![roomCode] = Len(roomCodes)]
    /\ isParticipant' = [isParticipant EXCEPT ![roomCode][sender] = TRUE]
    /\ roomCandidates' = [roomCandidates EXCEPT ![roomCode] =
           WithCandidates(@, 0, sender, candidateNames, candidateDescriptions,
                          candidateImageUrls)]
    /\ UNCHANGED <<hasVoted, totalVotes, candidateVotes, clearResults,
                   resultsPublished, now>>

---------------------------------------------------------------------------
(* addCandidate, addCandidatesBatch *)

\* addCandidate without the require on isActive
AddCandidateErrorWhenEnded(sender, roomCode) ==
    IF RoomExistsError(roomCode) # "" THEN RoomExistsError(roomCode)
    ELSE IF ~(sender = rooms[roomCode].creator)
         THEN "Only creator can add candidates"
    ELSE ""

AddCandidateError(sender, roomCode) ==
    IF RoomExistsError(roomCode) # "" THEN RoomExistsError(roomCode)
    ELSE IF ~(sender = rooms[roomCode].creator)
         THEN "Only creator can add candidates"
    ELSE IF ~rooms[roomCode].isActive THEN "Room is not active"
    ELSE ""

addCandidate(sender, roomCode, name, description, imageUrl) ==
    /\ AddCandidateError(sender, roomCode) = ""
    /\ rooms[roomCode].candidateCount < MaxCand
    /\ roomCandidates' = [roomCandidates EXCEPT
           ![roomCode][rooms[roomCode].candidateCount] =
               NewCandidate(sender, name, description, imageUrl)]
    /\ rooms' = [rooms EXCEPT ![roomCode].candidateCount = @ + 1]
    /\ UNCHANGED <<hasVoted, isParticipant, totalVotes, candidateVotes,
                   clearResults, resultsPublished, roomCodes, roomCodeIndex,
                   now>>

AddCandidatesBatchError(sender, roomCode, names, descriptions, imageUrls) ==
    IF RoomExistsError(roomCode) # "" THEN RoomExistsError(roomCode)
    ELSE IF ~(sender = rooms[roomCode].creator)
         THEN "Only creator can add candidates"
    ELSE IF ~rooms[roomCode].isActive THEN "Room is not active"
    ELSE IF ~(/\ Len(names) = Len(descriptions)
              /\ Len(names) = Len(imageUrls))
         THEN "Arrays length mismatch"
    ELSE IF ~(Len(names) > 0) THEN "At least one candidate required"
    ELSE ""

addCandidatesBatch(sender, roomCode, names, descriptions, imageUrls) ==
    /\ AddCandidatesBatchError(sender, roomCode, names, descriptions,
                               imageUrls) = ""
    /\ rooms[roomCode].candidateCount + Len(names) <= MaxCand
    /\ roomCandidates' = [roomCandidates EXCEPT ![roomCode] =
           WithCandidates(@, rooms[roomCode].candidateCount, sender, names,
                          descriptions, imageUrls)]
    /\ rooms' = [rooms EXCEPT ![roomCode].candidateCount = @ + Len(names)]
    /\ UNCHANGED <<hasVoted, isParticipant, totalVotes, candidateVotes,
                   clearResults, resultsPublished, roomCodes, roomCodeIndex,
                   now>>

---------------------------------------------------------------------------
(* vote *)

\* FHE.fromExternal taking every proof
FromExternalErrorAcceptsAll(inputProof) == ""

\* FHE.fromExternal(encryptedVote, inputProof) reverts on a proof that does
\* not verify
FromExternalError(inputProof) ==
    IF inputProof = "valid" THEN "" ELSE "Invalid input proof"

\* vote without the hasNotVoted modifier
VoteErrorNoVotedCheck(sender, roomCode, candidateId, inputProof) ==
    IF RoomExistsError(roomCode) # "" THEN RoomExistsError(roomCode)
    ELSE IF IsRoomParticipantError(roomCode, sender) # ""
         THEN IsRoomParticipantError(roomCode, sender)
    ELSE IF ~rooms[roomCode].isActive THEN "Room is not active"
    ELSE IF ~(rooms[roomCode].endTime > now) THEN "Room has ended"
    ELSE IF ~(candidateId < rooms[roomCode].candidateCount)
         THEN "Invalid candidate"
    ELSE IF ~roomCandidates[roomCode][candidateId].exists
         THEN "Candidate does not exist"
    ELSE FromExternalError(inputProof)

\* vote behind the roomActive modifier, which refuses a closed room
VoteErrorClosedRefuses(sender, roomCode, candidateId, inputProof) ==
    IF RoomExistsError(roomCode) # "" THEN RoomExistsError(roomCode)
    ELSE IF IsRoomParticipantError(roomCode, sender) # ""
         THEN IsRoomParticipantError(roomCode, sender)
    ELSE IF HasNotVotedError(roomCode, sender) # ""
         THEN HasNotVotedError(roomCode, sender)
    ELSE IF RoomActiveError(roomCode) # "" THEN RoomActiveError(roomCode)
    ELSE IF ~(candidateId < rooms[roomCode].candidateCount)
         THEN "Invalid candidate"
    ELSE IF ~roomCandidates[roomCode][candidateId].exists
         THEN "Candidate does not exist"
    ELSE FromExternalError(inputProof)

\* vote without its two tests of the candidate
VoteErrorAnyCandidate(sender, roomCode, candidateId, inputProof) ==
    IF RoomExistsError(roomCode) # "" THEN RoomExistsError(roomCode)
    ELSE IF IsRoomParticipantError(roomCode, sender) # ""
         THEN IsRoomParticipantError(roomCode, sender)
    ELSE IF HasNotVotedError(roomCode, sender) # ""
         THEN HasNotVotedError(roomCode, sender)
    ELSE IF ~rooms[roomCode].isActive THEN "Room is not active"
    ELSE IF ~(rooms[roomCode].endTime > now) THEN "Room has ended"
    ELSE FromExternalError(inputProof)

VoteError(sender, roomCode, candidateId, inputProof) ==
    IF RoomExistsError(roomCode) # "" THEN RoomExistsError(roomCode)
    ELSE IF IsRoomParticipantError(roomCode, sender) # ""
         THEN IsRoomParticipantError(roomCode, sender)
    ELSE IF HasNotVotedError(roomCode, sender) # ""
         THEN HasNotVotedError(roomCode, sender)
    ELSE IF ~rooms[roomCode].isActive THEN "Room is not active"
    ELSE IF ~(rooms[roomCode].endTime > now) THEN "Room has ended"
    ELSE IF ~(candidateId < rooms[roomCode].candidateCount)
         THEN "Invalid candidate"
    ELSE IF ~roomCandidates[roomCode][candidateId].exists
         THEN "Candidate does not exist"
    ELSE FromExternalError(inputProof)

\* the new encrypted total without the grant to the creator
VotedTotalNoCreatorGrant(sender, roomCode, candidateId, encryptedVote) ==
    Allow(Allow(FheAdd(roomCandidates[roomCode][candidateId].votes,
                       AsEuint32(encryptedVote)),
                This), sender)

\* the candidate's new encrypted total and who is allowed on it
VotedTotal(sender, roomCode, candidateId, encryptedVote) ==
    Allow(Allow(Allow(FheAdd(roomCandidates[roomCode][candidateId].votes,
                             AsEuint32(encryptedVote)),
                      This), sender), rooms[roomCode].creator)

\* the room ends only once more votes are in than it has places
FullTurnoutStrict(roomCode, votes) ==
    votes > rooms[roomCode].maxParticipants

\* the room ends once as many votes are in as it has participants
FullTurnoutOfParticipants(roomCode, votes) ==
    votes >= rooms[roomCode].participantCount

\* "Announce results if max participants have voted", on the incremented total
FullTurnout(roomCode, votes) ==
    votes >= rooms[roomCode].maxParticipants

vote(sender, roomCode, candidateId, encryptedVote, inputProof) ==
    /\ VoteError(sender, roomCode, candidateId, inputProof) = ""
    /\ roomCandidates' = [roomCandidates EXCEPT
           ![roomCode][candidateId].votes =
               VotedTotal(sender, roomCode, candidateId, encryptedVote)]
    /\ hasVoted' = [hasVoted EXCEPT ![roomCode][sender] = TRUE]
    /\ totalVotes' = [totalVotes EXCEPT ![roomCode] = @ + 1]
    /\ candidateVotes' = [candidateVotes EXCEPT ![roomCode][candidateId] = @ + 1]
    /\ rooms' = [rooms EXCEPT ![roomCode].isActive =
                    IF FullTurnout(roomCode, totalVotes[roomCode] + 1)
                    THEN FALSE ELSE @]
    /\ UNCHANGED <<isParticipant, clearResults, resultsPublished, roomCodes,
                   roomCodeIndex, now>>

---------------------------------------------------------------------------
(* endRoom, checkAndEndRoom *)

EndRoomError(sender, roomCode) ==
    IF RoomExistsError(roomCode) # "" THEN RoomExistsError(roomCode)
    ELSE IF ~(sender = rooms[roomCode].creator) THEN "Only creator can end room"
    ELSE IF ~rooms[roomCode].isActive THEN "Room already ended"
    ELSE ""

\* endRoom ending every room of the caller
endRoomOfAll(sender, roomCode) ==
    /\ EndRoomError(sender, roomCode) = ""
    /\ rooms' = [c \in Codes |->
                    IF rooms[c].creator = sender
                    THEN [rooms[c] EXCEPT !.isActive = FALSE] ELSE rooms[c]]
    /\ UNCHANGED <<roomCandidates, hasVoted, isParticipant, totalVotes,
                   candidateVotes, clearResults, resultsPublished, roomCodes,
                   roomCodeIndex, now>>

endRoom(sender, roomCode) ==
    /\ EndRoomError(sender, roomCode) = ""
    /\ rooms' = [rooms EXCEPT ![roomCode].isActive = FALSE]
    /\ UNCHANGED <<roomCandidates, hasVoted, isParticipant, totalVotes,
                   candidateVotes, clearResults, resultsPublished, roomCodes,
                   roomCodeIndex, now>>

\* checkAndEndRoom refusing the instant endTime itself
CheckAndEndRoomErrorStrict(roomCode) ==
    IF RoomExistsError(roomCode) # "" THEN RoomExistsError(roomCode)
    ELSE IF ~rooms[roomCode].isActive THEN "Room already ended"
    ELSE IF ~(now > rooms[roomCode].endTime) THEN "Room has not ended yet"
    ELSE ""

CheckAndEndRoomError(roomCode) ==
    IF RoomExistsError(roomCode) # "" THEN RoomExistsError(roomCode)
    ELSE IF ~rooms[roomCode].isActive THEN "Room already ended"
    ELSE IF ~(now >= rooms[roomCode].endTime) THEN "Room has not ended yet"
    ELSE ""

checkAndEndRoom(sender, roomCode) ==
    /\ CheckAndEndRoomError(roomCode) = ""
    /\ rooms' = [rooms EXCEPT ![roomCode].isActive = FALSE]
    /\ UNCHANGED <<roomCandidates, hasVoted, isParticipant, totalVotes,
                   candidateVotes, clearResults, resultsPublished, roomCodes,
                   roomCodeIndex, now>>

---------------------------------------------------------------------------
(* publishResults *)

\* candidateVoteCounts arguments: for each length up to MaxCand, the arrays
\* v, v + 1, ... that start at one of ResultValues
ResultArrays == {[i \in 1 .. n |-> v + i - 1] :
                    n \in 0 .. MaxCand, v \in ResultValues}

\* publishResults without the require on isActive
PublishResultsErrorWhileActive(sender, roomCode, candidateVoteCounts) ==
    IF RoomExistsError(roomCode) # "" THEN RoomExistsError(roomCode)
    ELSE IF ~(sender = rooms[roomCode].creator)
         THEN "Only creator can publish results"
    ELSE IF ~(Len(candidateVoteCounts) = rooms[roomCode].candidateCount)
         THEN "Invalid candidate votes length"
    ELSE ""

PublishResultsError(sender, roomCode, candidateVoteCounts) ==
    IF RoomExistsError(roomCode) # "" THEN RoomExistsError(roomCode)
    ELSE IF ~(sender = rooms[roomCode].creator)
         THEN "Only creator can publish results"
    ELSE IF rooms[roomCode].isActive
         THEN "Room must be ended to publish results"
    ELSE IF ~(Len(candidateVoteCounts) = rooms[roomCode].candidateCount)
         THEN "Invalid candidate votes length"
    ELSE ""

publishResults(sender, roomCode, candidateVoteCounts) ==
    /\ PublishResultsError(sender, roomCode, candidateVoteCounts) = ""
    /\ clearResults' = [clearResults EXCEPT ![roomCode] =
           [i \in DOMAIN @ |->
               IF i < Len(candidateVoteCounts)
               THEN candidateVoteCounts[i + 1] ELSE @[i]]]
    /\ resultsPublished' = [resultsPublished EXCEPT ![roomCode] = TRUE]
    /\ UNCHANGED <<rooms, roomCandidates, hasVoted, isParticipant, totalVotes,
                   candidateVotes, roomCodes, roomCodeIndex, now>>

---------------------------------------------------------------------------
(* View functions: FError is the revert message of view F, F its result *)

GetRoomError(roomCode) == RoomExistsError(roomCode)

getRoom(roomCode) == rooms[roomCode]

GetCandidateError(roomCode, candidateId) ==
    IF RoomExistsError(roomCode) # "" THEN RoomExistsError(roomCode)
    ELSE IF ~(candidateId < rooms[roomCode].candidateCount)
         THEN "Invalid candidate"
    ELSE ""

getCandidate(roomCode, candidateId) ==
    LET candidate == roomCandidates[roomCode][candidateId]
    IN <<candidate.name, candidate.description, candidate.imageUrl>>

GetCandidateVotesError(roomCode, candidateId) ==
    IF RoomExistsError(roomCode) # "" THEN RoomExistsError(roomCode)
    ELSE IF ~(candidateId < rooms[roomCode].candidateCount)
         THEN "Invalid candidate"
    ELSE ""

getCandidateVotes(roomCode, candidateId) ==
    roomCandidates[roomCode][candidateId].votes

GetClearResultsError(roomCode, candidateId) ==
    IF RoomExistsError(roomCode) # "" THEN RoomExistsError(roomCode)
    ELSE IF ~resultsPublished[roomCode] THEN "Results not published yet"
    ELSE IF ~(candidateId < rooms[roomCode].candidateCount)
         THEN "Invalid candidate"
    ELSE ""

\* getClearResults returning the public counter of the candidate
getClearResultsFromVotes(roomCode, candidateId) ==
    candidateVotes[roomCode][candidateId]

getClearResults(roomCode, candidateId) == clearResults[roomCode][candidateId]

GetAllVotingResultsError(roomCode) == RoomExistsError(roomCode)

\* the four values getAllVotingResults returns; array index i of Solidity is
\* position i + 1 of the sequence
getAllVotingResults(roomCode) ==
    LET candidateCount == rooms[roomCode].candidateCount IN
    [candidateIds |-> [k \in 1 .. candidateCount |-> k - 1],
     candidateNames |-> [k \in 1 .. candidateCount |-> roomCandidates[roomCode][k - 1].name],
     voteCounts |-> [k \in 1 .. candidateCount |-> candidateVotes[roomCode][k - 1]],
     roomTotalVotes |-> totalVotes[roomCode]]

\* getActiveRooms listing by the isActive flag alone
ListedAsActiveByFlag(roomCode) == rooms[roomCode].isActive

\* the condition of both loops of getActiveRooms
ListedAsActive(roomCode) ==
    rooms[roomCode].isActive /\ rooms[roomCode].endTime > now

\* the first loop: the number of listed entries among roomCodes[0 .. i-1]
\* (roomCodes[k] of the contract is roomCodes[k + 1] here)
RECURSIVE ActiveCount(_)
ActiveCount(i) ==
    IF i = 0 THEN 0
    ELSE ActiveCount(i - 1) + (IF ListedAsActive(roomCodes[i]) THEN 1 ELSE 0)

\* the second loop from entry i on: activeRooms filled up to currentIndex
RECURSIVE FillActiveRooms(_, _, _)
FillActiveRooms(i, activeRooms, currentIndex) ==
    IF ~(i < Len(roomCodes)) THEN activeRooms
    ELSE IF ListedAsActive(roomCodes[i + 1])
         THEN FillActiveRooms(i + 1,
                              [activeRooms EXCEPT ![currentIndex + 1] =
                                                     roomCodes[i + 1]],
                              currentIndex + 1)
    ELSE FillActiveRooms(i + 1, activeRooms, currentIndex)

getActiveRooms ==
    LET activeCount == ActiveCount(Len(roomCodes))
    IN FillActiveRooms(0, [k \in 1 .. activeCount |-> ""], 0)

---------------------------------------------------------------------------
(* block.timestamp moves on between transactions *)

Tick ==
    /\ now < MaxTime
    /\ now' = now + 1
    /\ UNCHANGED <<rooms, roomCandidates, hasVoted, isParticipant, totalVotes,
                   candidateVotes, clearResults, resultsPublished, roomCodes,
                   roomCodeIndex>>

\* The calls of one step, with msg.sender and the arguments drawn from the
\* sets of D (the password settings of a create call, from the set D gives
\* for its code).  The create calls are drawn while roomCodes is below
\* MaxRooms.
NextOn(D) ==
    \/ /\ Len(roomCodes) < MaxRooms
       /\ \E s \in D.senders, c \in D.codes, m \in Caps, e \in EndTimes :
             \E pw \in D.passwordSettings[c] :
                createRoom(s, c, m, e, pw[1], pw[2])
    \/ /\ Len(roomCodes) < MaxRooms
       /\ \E s \in D.senders, c \in D.codes, m \in Caps, e \in EndTimes :
             \E pw \in D.passwordSettings[c], a \in D.batches :
                createRoomWithCandidatesBatch(s, c, m, e, pw[1], pw[2],
                                              a[1], a[2], a[3])
    \/ \E s \in D.senders, c \in D.codes, a \in D.candidates :
          addCandidate(s, c, a.name, a.description, a.imageUrl)
    \/ \E s \in D.senders, c \in D.codes, a \in D.batches :
          addCandidatesBatch(s, c, a[1], a[2], a[3])
    \/ \E s \in D.senders, c \in D.codes, p \in Passwords : joinRoom(s, c, p)
    \/ \E s \in D.senders, c \in D.codes, i \in CandIds, v \in D.values,
          pr \in Proofs : vote(s, c, i, v, pr)
    \/ \E s \in D.senders, c \in D.codes : endRoom(s, c)
    \/ \E s \in D.senders, c \in D.codes : checkAndEndRoom(s, c)
    \/ \E s \in D.senders, c \in D.codes, r \in D.results :
          publishResults(s, c, r)
    \/ Tick

\* Calls by u1 and u2 (u3 stays a stranger to every room) on every code, the
\* empty one included; rooms without a password and, under "R1", with
\* password "a"; one candidate text, votes of 1 and one array of counts per
\* length
Registry ==
    [codes |-> Codes,
     senders |-> {"u1", "u2"},
     passwordSettings |-> [c \in Codes |->
                             IF c = "" THEN {<<FALSE, ZeroHash>>}
                             ELSE {<<FALSE, ZeroHash>>, <<TRUE, Keccak("a")>>}],
     candidates |-> {a \in CandidateArgs : a.name = "A"},
     batches |-> BatchArgsOf(SeqsUpTo({a \in CandidateArgs : a.name = "A"},
                                      2)),
     values |-> {U32(0, 1)},
     results |-> {r \in ResultArrays : r = <<>> \/ r[1] = 0}]

Next == NextOn(Registry)

Spec == Init /\ [][Next]_vars

\* Calls by every identity on the one code "R1", with every candidate text,
\* vote value and array of counts
OneRoom ==
    [codes |-> {"R1"},
     senders |-> Users,
     passwordSettings |-> [c \in Codes |->
                             {<<FALSE, ZeroHash>>, <<TRUE, Keccak("a")>>}],
     candidates |-> CandidateArgs,
     batches |-> BatchArgs,
     values |-> VoteValues,
     results |-> ResultArrays]

NextOfOneRoom == NextOn(OneRoom)

SpecOfOneRoom == Init /\ [][NextOfOneRoom]_vars

---------------------------------------------------------------------------
(* Properties *)

\* roomCode was passed to a create call that committed
Created(roomCode) == \E k \in 1 .. Len(roomCodes) : roomCodes[k] = roomCode

\* the rooms a create call has stored
CreatedRooms == {c \in Codes : Created(c)}

\* candidateId arguments: every slot and the first index past them
AnyCandId == 0 .. MaxCand

\* C1: once hasVoted[room][identity] is true it stays true, and in every
\* state after that a vote by that identity on that room, for whatever
\* candidateId and proof, reverts with "Already voted in this room" (so it
\* changes no counter and no encrypted total)
C1_VoteAtMostOnce ==
    [][\A c \in Codes, u \in Users :
          /\ hasVoted[c][u] => hasVoted'[c][u]
          /\ hasVoted'[c][u] =>
                \A i \in AnyCandId, pr \in Proofs :
                   VoteError(u, c, i, pr)' = "Already voted in this room"]_vars

\* somebody has voted in a room that is still active, before its end time,
\* with a candidate to vote for
C1_Witness ==
    \E c \in Codes, u \in Users :
       /\ hasVoted[c][u]
       /\ rooms[c].isActive
       /\ rooms[c].endTime > now
       /\ rooms[c].candidateCount > 0

\* C2: every created room has 1 <= participantCount <= maxParticipants
C2_ParticipantCountInRange ==
    \A c \in CreatedRooms :
       /\ 1 <= rooms[c].participantCount
       /\ rooms[c].participantCount <= rooms[c].maxParticipants

\* a room that a join has filled
C2_Witness ==
    \E c \in CreatedRooms, u \in Users :
       /\ isParticipant[c][u]
       /\ u # rooms[c].creator
       /\ rooms[c].participantCount = rooms[c].maxParticipants

\* C3: a room is active in the state its creation leaves, and once a created
\* room's isActive is false no step sets it back to true
C3_IsActiveNeverReverts ==
    [][\A c \in Codes :
          /\ (Created(c)' /\ ~Created(c)) => rooms'[c].isActive
          /\ (Created(c) /\ ~rooms[c].isActive) => ~rooms'[c].isActive]_vars

\* a created room that has ended
C3_Witness == \E c \in CreatedRooms : ~rooms[c].isActive

\* C4: no state shows a created room with totalVotes >= maxParticipants and
\* isActive true, and in such a room every vote, by any identity, reverts
C4_AutoClose ==
    \A c \in CreatedRooms :
       totalVotes[c] >= rooms[c].maxParticipants =>
          /\ ~rooms[c].isActive
          /\ \A u \in Users, i \in AnyCandId, pr \in Proofs :
                VoteError(u, c, i, pr) # ""

\* a room of two places in which both participants have voted
C4_Witness ==
    \E c \in CreatedRooms :
       /\ rooms[c].maxParticipants = 2
       /\ totalVotes[c] = 2
       /\ rooms[c].endTime > now

\* C5 (as claimed): once a create call with a code has committed, every
\* create call with that code reverts with "Room code already exists", and
\* roomCodes holds no code twice
C5_CodeUsedOnce ==
    \A c \in CreatedRooms :
       /\ \A m \in Caps, e \in EndTimes :
             CreateRoomError(c, m, e) = "Room code already exists"
       /\ Cardinality({k \in 1 .. Len(roomCodes) : roomCodes[k] = c}) = 1

\* C6 (as claimed): createRoom commits exactly when the code was never
\* passed to a committed create call, endTime > now and maxParticipants > 0
C6_CreateRoomIff ==
    \A c \in Codes, m \in Caps, e \in EndTimes :
       (CreateRoomError(c, m, e) = "") <=> (~Created(c) /\ e > now /\ m > 0)

\* C7 (as claimed): in every created room, isClosed is true exactly when
\* participantCount = maxParticipants
C7_ClosedIffFull ==
    \A c \in CreatedRooms :
       rooms[c].isClosed <=>
          rooms[c].participantCount = rooms[c].maxParticipants

\* C7 (amended): isClosed is true exactly when participantCount =
\* maxParticipants and maxParticipants >= 2; a room of one place is full from
\* its creation with isClosed false
C7_ClosedIffFullOfTwoOrMore ==
    \A c \in CreatedRooms :
       /\ rooms[c].isClosed <=>
             /\ rooms[c].participantCount = rooms[c].maxParticipants
             /\ rooms[c].maxParticipants >= 2
       /\ rooms[c].maxParticipants = 1 =>
             rooms[c].participantCount = 1 /\ ~rooms[c].isClosed

\* a room that the join filling it has closed
C7_Witness ==
    \E c \in CreatedRooms, u \in Users :
       /\ rooms[c].isClosed
       /\ isParticipant[c][u]
       /\ u # rooms[c].creator

\* C8: a participant flag, once true, stays true; in every state a joinRoom
\* by a participant of the room reverts, whatever the password; and so does
\* a joinRoom by the creator of a created room
C8_JoinAtMostOnce ==
    [][\A c \in Codes, u \in Users :
          /\ isParticipant[c][u] => isParticipant'[c][u]
          /\ isParticipant'[c][u] =>
                \A p \in Passwords : JoinRoomError(u, c, p)' # ""
          /\ (Created(c)' /\ u = rooms'[c].creator) =>
                \A p \in Passwords : JoinRoomError(u, c, p)' # ""]_vars

\* a participant, the creator or not, of a room joinRoom would still let
\* somebody into
C8_Witness ==
    \E c \in CreatedRooms, u \in Users :
       /\ isParticipant[c][u]
       /\ rooms[c].isActive
       /\ rooms[c].endTime > now
       /\ ~rooms[c].isClosed
       /\ rooms[c].participantCount < rooms[c].maxParticipants

\* the failure the claimed order reports for joinRoom(roomCode, password)
\* called by sender: the first that applies of room does not exist, room not
\* active, end time passed, room closed, already a participant, room full,
\* invalid password
ClaimedJoinFailure(sender, roomCode, password) ==
    LET r == rooms[roomCode]
        failures ==
           << <<r.code = "", "Room does not exist">>,
              <<~r.isActive, "Room is not active">>,
              <<now >= r.endTime, "Room has ended">>,
              <<r.isClosed, "Room is closed for new participants">>,
              <<isParticipant[roomCode][sender], "Already a participant">>,
              <<r.participantCount >= r.maxParticipants, "Room is full">>,
              <<r.hasPassword /\ Keccak(password) # r.passwordHash,
                "Invalid password">> >>
        applying == {k \in 1 .. Len(failures) : failures[k][1]}
    IN IF applying = {} THEN ""
       ELSE failures[CHOOSE k \in applying : \A j \in applying : k <= j][2]

\* a password-protected room that is full, not closed, active and before its
\* end time, and somebody who is not a participant of it
FullButOpen(sender, roomCode) ==
    /\ rooms[roomCode].code # ""
    /\ rooms[roomCode].hasPassword
    /\ rooms[roomCode].isActive
    /\ rooms[roomCode].endTime > now
    /\ ~rooms[roomCode].isClosed
    /\ rooms[roomCode].participantCount = rooms[roomCode].maxParticipants
    /\ ~isParticipant[roomCode][sender]

\* C9: joinRoom reports the first failure of the claimed order; a
\* non-participant calling it on a full, open, password-protected room gets
\* "Room is full" whatever the password
C9_JoinFailureOrder ==
    \A c \in Codes, u \in Users, p \in Passwords :
       /\ JoinRoomError(u, c, p) = ClaimedJoinFailure(u, c, p)
       /\ FullButOpen(u, c) => JoinRoomError(u, c, p) = "Room is full"

\* a full, open, password-protected room and a non-participant whose wrong
\* password is one of two failures that apply
C9_Witness ==
    \E c \in Codes, u \in Users, p \in Passwords :
       /\ FullButOpen(u, c)
       /\ Keccak(p) # rooms[c].passwordHash

\* every precondition of joinRoom but the password one holds
JoinableButForPassword(sender, roomCode) ==
    /\ rooms[roomCode].code # ""
    /\ rooms[roomCode].isActive
    /\ rooms[roomCode].endTime > now
    /\ ~rooms[roomCode].isClosed
    /\ ~isParticipant[roomCode][sender]
    /\ rooms[roomCode].participantCount < rooms[roomCode].maxParticipants

\* C10: with every other precondition met, joinRoom on a room with
\* hasPassword commits exactly when the hash of the password equals the stored
\* passwordHash and reverts with "Invalid password" otherwise; on a room
\* without hasPassword it commits; and in every state, on a room without
\* hasPassword, two passwords give the same outcome
C10_PasswordGate ==
    \A c \in Codes, u \in Users, p \in Passwords :
       /\ (JoinableButForPassword(u, c) /\ rooms[c].hasPassword) =>
             /\ (JoinRoomError(u, c, p) = "") <=>
                   (Keccak(p) = rooms[c].passwordHash)
             /\ (JoinRoomError(u, c, p) # "") =>
                   JoinRoomError(u, c, p) = "Invalid password"
       /\ (JoinableButForPassword(u, c) /\ ~rooms[c].hasPassword) =>
             JoinRoomError(u, c, p) = ""
       /\ ~rooms[c].hasPassword =>
             \A q \in Passwords : JoinRoomError(u, c, q) = JoinRoomError(u, c, p)

\* somebody other than the creator has joined a password-protected room
C10_Witness ==
    \E c \in Codes, u \in Users :
       /\ rooms[c].hasPassword
       /\ isParticipant[c][u]
       /\ u # rooms[c].creator

\* the room is one getRoom returns
Exists(roomCode) == GetRoomError(roomCode) = ""

\* C11: a vote with a valid proof commits exactly when the room exists, the
\* caller is a participant who has not voted in it, isActive is true, now is
\* before endTime and candidateId < candidateCount; isClosed is no part of
\* it; and a room of two places whose two participants have both voted is
\* closed and not active
C11_VoteIff ==
    \A c \in Codes :
       /\ \A u \in Users, i \in AnyCandId :
             (VoteError(u, c, i, "valid") = "") <=>
                /\ Exists(c)
                /\ isParticipant[c][u]
                /\ ~hasVoted[c][u]
                /\ rooms[c].isActive
                /\ now < rooms[c].endTime
                /\ i < rooms[c].candidateCount
       /\ (/\ Exists(c)
           /\ rooms[c].maxParticipants = 2
           /\ rooms[c].participantCount = 2
           /\ totalVotes[c] = 2) =>
             ~rooms[c].isActive /\ rooms[c].isClosed

\* a room of two places and two candidates, closed by its second
\* participant, in which each candidate has got one of the two votes
C11_Witness ==
    \E c \in Codes :
       /\ rooms[c].maxParticipants = 2
       /\ rooms[c].candidateCount = 2
       /\ rooms[c].isClosed
       /\ ~rooms[c].isActive
       /\ candidateVotes[c][0] = 1
       /\ candidateVotes[c][1] = 1

\* C12: on an existing room with isActive, checkAndEndRoom reverts while now
\* is before endTime and commits from endTime on, whoever calls; the
\* committed call leaves isActive false, and from then on the call reverts
C12_CheckAndEndRoom ==
    [][\A c \in Codes :
          /\ (Exists(c) /\ rooms[c].isActive) =>
                /\ now < rooms[c].endTime =>
                      CheckAndEndRoomError(c) = "Room has not ended yet"
                /\ now >= rooms[c].endTime => CheckAndEndRoomError(c) = ""
          /\ \A u \in Users :
                checkAndEndRoom(u, c) =>
                   /\ ~rooms'[c].isActive
                   /\ CheckAndEndRoomError(c)' = "Room already ended"
          /\ (Exists(c) /\ ~rooms[c].isActive) =>
                /\ CheckAndEndRoomError(c) = "Room already ended"
                /\ CheckAndEndRoomError(c)' = "Room already ended"]_vars

\* a room that is past its end time and has ended with a vote still missing
C12_Witness ==
    \E c \in Codes :
       /\ Exists(c)
       /\ ~rooms[c].isActive
       /\ now >= rooms[c].endTime
       /\ totalVotes[c] < rooms[c].maxParticipants

\* C13: publishResults commits exactly when the room exists, the caller is
\* its creator, isActive is false and the array has candidateCount entries;
\* and results are published only of rooms that are not active
C13_PublishIff ==
    \A c \in Codes :
       /\ \A u \in Users, r \in ResultArrays :
             (PublishResultsError(u, c, r) = "") <=>
                /\ Exists(c)
                /\ u = rooms[c].creator
                /\ ~rooms[c].isActive
                /\ Len(r) = rooms[c].candidateCount
       /\ resultsPublished[c] => ~rooms[c].isActive

\* a room with published results
C13_Witness == \E c \in Codes : resultsPublished[c] /\ rooms[c].candidateCount > 0

\* publishResults(u, roomCode, r) commits in this step, for some caller u
Publishes(roomCode, r) == \E u \in Users : publishResults(u, roomCode, r)

\* C14: getClearResults reverts while no publishResults has committed on the
\* room; resultsPublished is set by publishResults alone and never cleared;
\* after a committed publishResults every index below candidateCount returns
\* its entry of the array of that call, whatever was published before and
\* whatever candidateVotes holds; and no other step changes what it returns
C14_ClearResults ==
    [][\A c \in Codes :
          /\ resultsPublished[c] => resultsPublished'[c]
          /\ ~resultsPublished[c] =>
                \A i \in AnyCandId : GetClearResultsError(c, i) # ""
          /\ ~resultsPublished'[c] =>
                \A i \in AnyCandId : GetClearResultsError(c, i)' # ""
          /\ (~resultsPublished[c] /\ resultsPublished'[c]) =>
                \E r \in ResultArrays : Publishes(c, r)
          /\ \A r \in ResultArrays :
                Publishes(c, r) =>
                   /\ Len(r) = rooms'[c].candidateCount
                   /\ \A i \in 0 .. (Len(r) - 1) :
                         /\ GetClearResultsError(c, i)' = ""
                         /\ getClearResults(c, i)' = r[i + 1]
          /\ (resultsPublished[c] /\ ~\E r \in ResultArrays : Publishes(c, r)) =>
                \A i \in CandIds :
                   i < rooms'[c].candidateCount =>
                      /\ GetClearResultsError(c, i)' = ""
                      /\ getClearResults(c, i)' = getClearResults(c, i)]_vars

\* published results that differ from the counters of the room and that a
\* further publishResults, with another array, would replace
C14_Witness ==
    \E c \in Codes, r \in {q \in ResultArrays : Len(q) = 2} :
       /\ resultsPublished[c]
       /\ rooms[c].candidateCount = 2
       /\ getClearResults(c, 0) = 7
       /\ getClearResults(c, 0) # candidateVotes[c][0]
       /\ r[1] # 7
       /\ PublishResultsError(rooms[c].creator, c, r) = ""

\* hasPassword and passwordHash arguments of the create calls
PasswordArgs == {FALSE, TRUE} \X PasswordHashes

\* C15 (as claimed): createRoomWithCandidatesBatch reverts when the code was
\* passed to a committed create call, endTime is not after now,
\* maxParticipants is 0, the arrays differ in length or hold fewer than two
\* entries; and the step of a committed call leaves a room that getRoom
\* returns with candidateCount equal to the array length, which is 2 or more
C15_BatchAllOrNothing ==
    [][\A c \in Codes, m \in Caps, e \in EndTimes, a \in BatchArgs :
          /\ (\/ Created(c)
              \/ ~(e > now)
              \/ m = 0
              \/ Len(a[1]) # Len(a[2])
              \/ Len(a[1]) # Len(a[3])
              \/ Len(a[1]) < 2) =>
                CreateRoomWithCandidatesBatchError(c, m, e, a[1], a[2], a[3]) # ""
          /\ \A s \in Users, pw \in PasswordArgs :
                createRoomWithCandidatesBatch(s, c, m, e, pw[1], pw[2],
                                              a[1], a[2], a[3]) =>
                   /\ GetRoomError(c)' = ""
                   /\ getRoom(c)'.candidateCount = Len(a[1])
                   /\ Len(a[1]) >= 2]_vars

\* C16 (as claimed): after the step of a committed candidate-adding call,
\* getCandidate returns for each index the call has filled the name,
\* description and imageUrl of its entry; and whatever getCandidate returns
\* for an index below candidateCount of a created room, it returns after
\* every step
C16_CandidateRoundTrip ==
    [][\A c \in Codes :
          /\ \A s \in Users, m \in Caps, e \in EndTimes, pw \in PasswordArgs,
                a \in BatchArgs :
                createRoomWithCandidatesBatch(s, c, m, e, pw[1], pw[2],
                                              a[1], a[2], a[3]) =>
                   \A i \in 0 .. (Len(a[1]) - 1) :
                      /\ GetCandidateError(c, i)' = ""
                      /\ getCandidate(c, i)' =
                            <<a[1][i + 1], a[2][i + 1], a[3][i + 1]>>
          /\ \A s \in Users, a \in CandidateArgs :
                addCandidate(s, c, a.name, a.description, a.imageUrl) =>
                   \A first \in CandIds :
                      first = rooms[c].candidateCount =>
                         /\ GetCandidateError(c, first)' = ""
                         /\ getCandidate(c, first)' =
                               <<a.name, a.description, a.imageUrl>>
          /\ \A s \in Users, a \in BatchArgs :
                addCandidatesBatch(s, c, a[1], a[2], a[3]) =>
                   \A first \in CandIds, i \in 0 .. (Len(a[1]) - 1) :
                      first = rooms[c].candidateCount =>
                         /\ GetCandidateError(c, first + i)' = ""
                         /\ getCandidate(c, first + i)' =
                               <<a[1][i + 1], a[2][i + 1], a[3][i + 1]>>
          /\ \A i \in CandIds :
                (Created(c) /\ i < rooms[c].candidateCount) =>
                   /\ GetCandidateError(c, i)' = ""
                   /\ getCandidate(c, i)' = getCandidate(c, i)]_vars

\* the positions of roomCodes whose room is active before its end time
ActivePositions ==
    {k \in 1 .. Len(roomCodes) :
        rooms[roomCodes[k]].isActive /\ rooms[roomCodes[k]].endTime > now}

\* the j-th of them, counted from the first created
ActivePosition(j) ==
    CHOOSE k \in ActivePositions :
       Cardinality({l \in ActivePositions : l <= k}) = j

\* C17: getActiveRooms returns the entries of roomCodes whose room has
\* isActive and endTime > now, each once per entry and in the order of
\* roomCodes; no room at or past its end time is among them, whatever its
\* isActive flag
C17_ActiveRooms ==
    LET activeRooms == getActiveRooms
    IN /\ Len(activeRooms) = Cardinality(ActivePositions)
       /\ \A j \in 1 .. Len(activeRooms) :
             activeRooms[j] = roomCodes[ActivePosition(j)]
       /\ \A k \in 1 .. Len(roomCodes), j \in 1 .. Len(activeRooms) :
             rooms[roomCodes[k]].endTime <= now =>
                activeRooms[j] # roomCodes[k]

\* a room past its end time whose isActive flag nobody has cleared
C17_Witness ==
    \E k \in 1 .. Len(roomCodes) :
       /\ rooms[roomCodes[k]].isActive
       /\ rooms[roomCodes[k]].endTime <= now
       /\ Len(getActiveRooms) < Len(roomCodes)

\* who is allowed on the ciphertext h
Readable(h, who) == who \in h.acl

\* every candidate of every created room has an encrypted total the
\* contract and the creator of the room are allowed on
TotalsReadable ==
    \A c \in CreatedRooms, i \in CandIds :
       i < rooms[c].candidateCount =>
          /\ Readable(getCandidateVotes(c, i), This)
          /\ Readable(getCandidateVotes(c, i), rooms[c].creator)

\* C18: in every state the encrypted total of every candidate (every index
\* below candidateCount) of every created room is readable by the contract
\* and by the creator of the room; and the total a committed vote (the step
\* that sets the voter's hasVoted and counts one more vote for the candidate)
\* leaves for its candidate is readable by the voter
C18_Grants ==
    [][/\ TotalsReadable
       /\ TotalsReadable'
       /\ \A c \in Codes, u \in Users, i \in CandIds :
             (/\ ~hasVoted[c][u]
              /\ hasVoted'[c][u]
              /\ candidateVotes'[c][i] = candidateVotes[c][i] + 1) =>
                Readable(getCandidateVotes(c, i), u)']_vars

\* a candidate whose total holds the vote of somebody other than the creator
C18_Witness ==
    \E c \in CreatedRooms, i \in CandIds, u \in Users :
       /\ i < rooms[c].candidateCount
       /\ candidateVotes[c][i] >= 1
       /\ hasVoted[c][u]
       /\ u # rooms[c].creator
       /\ Readable(getCandidateVotes(c, i), u)

\* C19: a vote that meets every other precondition reverts on a proof the
\* FHE library rejects, and the votes that revert for the proof alone are
\* the ones that commit, in the same state, with a valid proof
C19_ProofRejected ==
    \A c \in Codes, u \in Users, i \in AnyCandId :
       (VoteError(u, c, i, "invalid") = "Invalid input proof") <=>
          (VoteError(u, c, i, "valid") = "")

\* a room with a vote counted in which another participant's vote would
\* revert for its proof alone
C19_Witness ==
    \E c \in Codes, u \in Users, i \in CandIds :
       /\ totalVotes[c] > 0
       /\ ~hasVoted[c][u]
       /\ VoteError(u, c, i, "invalid") = "Invalid input proof"

\* everything stored under roomCode
Stored(roomCode) ==
    <<rooms[roomCode], roomCandidates[roomCode], hasVoted[roomCode],
      isParticipant[roomCode], totalVotes[roomCode],
      candidateVotes[roomCode], clearResults[roomCode],
      resultsPublished[roomCode], roomCodeIndex[roomCode]>>

\* C20: every step changes what is stored under at most one room code R,
\* and changes roomCodes only by appending R in the step of a create call
\* that commits with R
C20_Frame ==
    [][\E R \in Codes :
          /\ \A c \in Codes \ {R} : Stored(c)' = Stored(c)
          /\ \/ roomCodes' = roomCodes
             \/ /\ roomCodes' = Append(roomCodes, R)
                /\ CreateRoomError(R, rooms'[R].maxParticipants,
                                   rooms'[R].endTime) = ""
                /\ rooms'[R].code = R]_vars

\* two created rooms, one with a vote counted and ended, the other still
\* active and without votes
C20_Witness ==
    \E c \in CreatedRooms, d \in CreatedRooms :
       /\ c # d
       /\ totalVotes[c] > 0
       /\ ~rooms[c].isActive
       /\ rooms[d].isActive
       /\ totalVotes[d] = 0

\* what a room holds apart from its published results
Ballot(roomCode) ==
    <<rooms[roomCode], roomCandidates[roomCode], hasVoted[roomCode],
      isParticipant[roomCode], totalVotes[roomCode],
      candidateVotes[roomCode]>>

\* every vote, joinRoom, addCandidate, addCandidatesBatch, endRoom and
\* checkAndEndRoom on roomCode reverts, whoever calls and whatever the
\* arguments
EveryCallButPublishReverts(roomCode) ==
    /\ \A u \in Users, i \in AnyCandId, pr \in Proofs :
          VoteError(u, roomCode, i, pr) # ""
    /\ \A u \in Users, p \in Passwords : JoinRoomError(u, roomCode, p) # ""
    /\ \A u \in Users : AddCandidateError(u, roomCode) # ""
    /\ \A u \in Users, a \in BatchArgs :
          AddCandidatesBatchError(u, roomCode, a[1], a[2], a[3]) # ""
    /\ \A u \in Users : EndRoomError(u, roomCode) # ""
    /\ CheckAndEndRoomError(roomCode) # ""

\* C21: once isActive of a created room is false, every vote, joinRoom,
\* addCandidate, addCandidatesBatch, endRoom and checkAndEndRoom on it
\* reverts, in that state and in every later one; no step changes its room
\* record, participants, voters, counters, candidates or encrypted totals;
\* and a step that changes anything stored under it is a publishResults of
\* its creator
C21_EndedIsTerminal ==
    [][\A c \in Codes :
          (Created(c) /\ ~rooms[c].isActive) =>
             /\ EveryCallButPublishReverts(c)
             /\ EveryCallButPublishReverts(c)'
             /\ Ballot(c)' = Ballot(c)
             /\ Stored(c)' # Stored(c) =>
                   \E r \in ResultArrays : publishResults(rooms[c].creator, c, r)]_vars

\* a room ended before its end time, with a free place and room for one
\* more candidate
C21_Witness ==
    \E c \in CreatedRooms :
       /\ ~rooms[c].isActive
       /\ now < rooms[c].endTime
       /\ ~rooms[c].isClosed
       /\ rooms[c].participantCount < rooms[c].maxParticipants
       /\ rooms[c].candidateCount < MaxCand

\* C22 (as claimed): candidateCount of a created room never decreases; a
\* step that raises it is an addCandidate or addCandidatesBatch of the
\* creator on an active room; and the indices whose exists flag is true are
\* exactly those below candidateCount
C22_CandidateCount ==
    [][\A c \in Codes :
          /\ Created(c) =>
                /\ rooms'[c].candidateCount >= rooms[c].candidateCount
                /\ rooms'[c].candidateCount > rooms[c].candidateCount =>
                      /\ rooms[c].isActive
                      /\ AddCandidateError(rooms[c].creator, c) = ""
                      /\ \A u \in Users \ {rooms[c].creator} :
                            AddCandidateError(u, c) # ""
                      /\ roomCandidates'[c] # roomCandidates[c]
                /\ \A i \in CandIds :
                      roomCandidates[c][i].exists <=> i < rooms[c].candidateCount
          /\ Created(c)' =>
                \A i \in CandIds :
                   roomCandidates'[c][i].exists <=> i < rooms'[c].candidateCount]_vars

\* the plaintext of the encrypted total of a candidate
Tally(roomCode, candidateId) == roomCandidates[roomCode][candidateId].votes.val

\* a + b modulo 2^32 on the 16-bit halves, by subtraction
SumMod32(a, b) ==
    LET lo == a.lo + b.lo
        carry == IF lo >= 65536 THEN 1 ELSE 0
        hi == a.hi + b.hi + carry
    IN [hi |-> IF hi >= 65536 THEN hi - 65536 ELSE hi,
        lo |-> IF lo >= 65536 THEN lo - 65536 ELSE lo]

\* the number n of votes as a uint32
AsTally(n) == [hi |-> 0, lo |-> n]

\* C23: a candidate starts with an initialised encrypted 0 and a counter of
\* 0; a committed vote for it adds the plaintext of the vote to the
\* encrypted total modulo 2^32 and 1 to candidateVotes, so that a vote of 1
\* keeps the two equal where they were equal; and no other step changes
\* either of them
C23_TallyAndCounter ==
    [][\A c \in Codes, i \in CandIds :
          /\ (~roomCandidates[c][i].exists /\ roomCandidates'[c][i].exists) =>
                /\ roomCandidates'[c][i].votes.init
                /\ Tally(c, i)' = AsTally(0)
                /\ candidateVotes'[c][i] = 0
          /\ \A u \in Users, v \in VoteValues :
                vote(u, c, i, v, "valid") =>
                   /\ Tally(c, i)' = SumMod32(Tally(c, i), v)
                   /\ candidateVotes'[c][i] = candidateVotes[c][i] + 1
                   /\ (v = AsTally(1) /\ Tally(c, i) = AsTally(candidateVotes[c][i])) =>
                         Tally(c, i)' = AsTally(candidateVotes'[c][i])
          /\ (/\ roomCandidates[c][i].exists
              /\ \/ Tally(c, i)' # Tally(c, i)
                 \/ candidateVotes'[c][i] # candidateVotes[c][i]) =>
                \E u \in Users, v \in VoteValues : vote(u, c, i, v, "valid")]_vars

\* a candidate with two votes counted whose encrypted total has wrapped to
\* 0: one vote of 1 and one of 2^32 - 1
C23_Witness ==
    \E c \in Codes, i \in CandIds :
       /\ candidateVotes[c][i] = 2
       /\ roomCandidates[c][i].votes.init
       /\ Tally(c, i) = AsTally(0)

\* C24: when two distinct users could each join a room with one free place,
\* the join of either of them commits, leaves participantCount at
\* maxParticipants and isClosed true, and makes the join of the other fail
\* with 'Room is closed for new participants'
C24_LastPlace ==
    [][\A c \in Codes, a \in Users, b \in Users, pa \in Passwords, pb \in Passwords :
          (/\ a # b
           /\ rooms[c].participantCount + 1 = rooms[c].maxParticipants
           /\ JoinRoomError(a, c, pa) = ""
           /\ JoinRoomError(b, c, pb) = ""
           /\ joinRoom(a, c, pa)) =>
             /\ isParticipant'[c][a]
             /\ ~isParticipant'[c][b]
             /\ rooms'[c].participantCount = rooms'[c].maxParticipants
             /\ rooms'[c].isClosed
             /\ JoinRoomError(b, c, pb)' = "Room is closed for new participants"]_vars

\* a room with a password whose last place was taken by a join, and a user
\* left outside whose join with the password is refused as closed
C24_Witness ==
    \E c \in CreatedRooms, b \in Users :
       /\ rooms[c].hasPassword
       /\ rooms[c].maxParticipants = 2
       /\ rooms[c].participantCount = 2
       /\ rooms[c].isClosed
       /\ ~isParticipant[c][b]
       /\ JoinRoomError(b, c, "a") = "Room is closed for new participants"

\* passwords typed into the client: blank ones, the one of the rooms, and
\* another one
TypedPasswords == {"", " ", "a", "b"}

\* !password.trim() of the client hooks
Blank(password) == password \in {"", " "}

\* usePasswordValidation.validateRoomPassword with the joinRoom of the
\* contract as joinRoomFunction: what the hook reports for the outcome the
\* call has in the current state
validateRoomPassword(sender, roomCode, password) ==
    LET errorMessage == JoinRoomError(sender, roomCode, password) IN
    IF Blank(password)
       THEN [isValid |-> FALSE, isAlreadyParticipant |-> FALSE,
             error |-> "Password is required for this room."]
    ELSE IF errorMessage = ""
       THEN [isValid |-> TRUE, isAlreadyParticipant |-> FALSE, error |-> ""]
    ELSE IF errorMessage = "Invalid password"
       THEN [isValid |-> FALSE, isAlreadyParticipant |-> FALSE,
             error |-> "Incorrect password. Please check your password and try again."]
    ELSE IF errorMessage = "Already a participant"
       THEN [isValid |-> TRUE, isAlreadyParticipant |-> TRUE, error |-> ""]
    ELSE IF errorMessage = "Room is full"
       THEN [isValid |-> FALSE, isAlreadyParticipant |-> FALSE,
             error |-> "This room is full. Cannot join at this time."]
    ELSE IF errorMessage \in {"Room has ended", "Room is not active"}
       THEN [isValid |-> FALSE, isAlreadyParticipant |-> FALSE,
             error |-> "This room has ended and is no longer accepting participants."]
    ELSE IF errorMessage = "Room does not exist"
       THEN [isValid |-> FALSE, isAlreadyParticipant |-> FALSE,
             error |-> "Room not found. Please check the room code and try again."]
    ELSE [isValid |-> FALSE, isAlreadyParticipant |-> FALSE,
          error |-> "Failed to connect to the voting room. Please check your internet connection and try again."]

\* C25: a joinRoom on a room with a password that fails with 'Already a
\* participant' was made with the password of the room, and so the hook
\* reports isValid only for the password of the room
C25_PasswordBeforeParticipant ==
    \A c \in Codes, u \in Users, p \in TypedPasswords :
       rooms[c].hasPassword =>
          /\ JoinRoomError(u, c, p) = "Already a participant" =>
                Keccak(p) = rooms[c].passwordHash
          /\ validateRoomPassword(u, c, p).isValid =>
                Keccak(p) = rooms[c].passwordHash

\* useVotingRoom.createRoom: the hasPassword and passwordHash the client
\* sends for the form's hasPassword and password
createRoomPasswordArgs(hasPassword, password) ==
    <<hasPassword, IF hasPassword /\ password # "" THEN Keccak(password) ELSE ZeroHash>>

\* what the client can send
ClientPasswordArgs == {createRoomPasswordArgs(h, p) : h \in BOOLEAN, p \in Passwords}

\* Calls as in Registry on the one code "R1", the rooms created with every
\* hasPassword and passwordHash: those the client sends and those of a
\* direct call
AnyPassword ==
    [Registry EXCEPT !.codes = {"R1"},
                     !.passwordSettings = [c \in Codes |-> PasswordArgs \cup ClientPasswordArgs]]

NextOfAnyPassword == NextOn(AnyPassword)

SpecOfAnyPassword == Init /\ [][NextOfAnyPassword]_vars

\* C26: the stored passwordHash of a created room is non-zero exactly when
\* its hasPassword is true
C26_PasswordHashIffHasPassword ==
    \A c \in CreatedRooms :
       (rooms[c].passwordHash # ZeroHash) <=> rooms[c].hasPassword

\* The calls of Spec where the time keeps advancing and, for every code,
\* a checkAndEndRoom that can commit is made by someone in the end
FairSpec ==
    /\ Init /\ [][Next]_vars
    /\ WF_vars(Tick)
    /\ \A c \in Codes : WF_vars(\E s \in Users : checkAndEndRoom(s, c))

\* C27: on a created room that is active at or after its endTime,
\* checkAndEndRoom commits for every caller; and every created room, under
\* any code, is inactive in the end
C27_EndsWithoutCreator ==
    /\ [](\A c \in CreatedRooms :
            (rooms[c].isActive /\ now >= rooms[c].endTime) =>
               \A u \in Users : ENABLED checkAndEndRoom(u, c))
    /\ \A c \in Codes : [](Created(c) => <>(~rooms[c].isActive))

\* the sum of the numbers of a sequence
RECURSIVE SeqSum(_)
SeqSum(q) == IF q = <<>> THEN 0 ELSE q[1] + SeqSum(Tail(q))

\* counts[0] + ... + counts[n - 1]
RECURSIVE SumBelow(_, _)
SumBelow(counts, n) == IF n = 0 THEN 0 ELSE counts[n - 1] + SumBelow(counts, n - 1)

\* the three counts of the votes of a room agree
VotesAgree(roomCode) ==
    /\ totalVotes[roomCode] = Cardinality({u \in Users : hasVoted[roomCode][u]})
    /\ totalVotes[roomCode] = SumBelow(candidateVotes[roomCode], rooms[roomCode].candidateCount)
    /\ \A i \in CandIds :
          ~(i < rooms[roomCode].candidateCount) => candidateVotes[roomCode][i] = 0
    /\ GetAllVotingResultsError(roomCode) = "" =>
          /\ getAllVotingResults(roomCode).roomTotalVotes = SeqSum(getAllVotingResults(roomCode).voteCounts)
          /\ Len(getAllVotingResults(roomCode).voteCounts) = rooms[roomCode].candidateCount

\* C28: in every state totalVotes of a room is the number of hasVoted flags
\* set for it and the sum of candidateVotes over its candidates, which is
\* the sum of the counts getAllVotingResults returns; and a step that adds
\* candidates changes no counter and no flag
C28_VoteCounts ==
    [][\A c \in Codes :
          /\ VotesAgree(c)
          /\ VotesAgree(c)'
          /\ rooms'[c].candidateCount > rooms[c].candidateCount =>
                /\ totalVotes' = totalVotes
                /\ candidateVotes' = candidateVotes
                /\ hasVoted' = hasVoted
                /\ Exists(c) =>
                      \A i \in CandIds :
                         i < rooms[c].candidateCount =>
                            roomCandidates'[c][i] = roomCandidates[c][i]]_vars

\* a room with two votes, one for each of its two candidates
C28_Witness ==
    \E c \in CreatedRooms :
       /\ rooms[c].candidateCount = 2
       /\ candidateVotes[c][0] = 1
       /\ candidateVotes[c][1] = 1
       /\ totalVotes[c] = 2
       /\ getAllVotingResults(c).voteCounts = <<1, 1>>

\* the participants of a room are as many as its participantCount, and its
\* creator is one of them
ParticipantsCounted(roomCode) ==
    /\ rooms[roomCode].participantCount = Cardinality({u \in Users : isParticipant[roomCode][u]})
    /\ isParticipant[roomCode][rooms[roomCode].creator]

\* C29: for every code a create call has committed with, participantCount
\* is the number of isParticipant flags set for the code and the creator's
\* flag is one of them; and no step clears a flag
C29_ParticipantFlags ==
    [][\A c \in Codes :
          /\ Created(c) => ParticipantsCounted(c)
          /\ Created(c)' => ParticipantsCounted(c)'
          /\ \A u \in Users : isParticipant[c][u] => isParticipant'[c][u]]_vars

\* every participant of the room has voted
AllHaveVoted(roomCode) ==
    \A u \in Users : isParticipant[roomCode][u] => hasVoted[roomCode][u]

\* C30: whoever has voted in a room is a participant of it, and totalVotes
\* <= participantCount <= maxParticipants; a vote ends the room only when
\* participantCount is maxParticipants and every participant has voted;
\* and a room with a free place is ended by endRoom or checkAndEndRoom
\* alone, whoever has voted
C30_FullTurnout ==
    [][\A c \in Codes :
          /\ \A u \in Users : hasVoted[c][u] => isParticipant[c][u]
          /\ \A u \in Users : hasVoted'[c][u] => isParticipant'[c][u]
          /\ totalVotes[c] <= rooms[c].participantCount
          /\ totalVotes'[c] <= rooms'[c].participantCount
          /\ rooms[c].participantCount <= rooms[c].maxParticipants
          /\ rooms'[c].participantCount <= rooms'[c].maxParticipants
          /\ (rooms[c].isActive /\ ~rooms'[c].isActive /\ totalVotes'[c] # totalVotes[c]) =>
                /\ rooms'[c].participantCount = rooms'[c].maxParticipants
                /\ AllHaveVoted(c)'
          /\ (/\ rooms[c].isActive /\ ~rooms'[c].isActive
              /\ rooms[c].participantCount < rooms[c].maxParticipants) =>
                \E s \in Users : endRoom(s, c) \/ checkAndEndRoom(s, c)]_vars

\* a room with a free place whose participants have all voted, still active
C30_Witness ==
    \E c \in CreatedRooms :
       /\ rooms[c].isActive
       /\ rooms[c].participantCount < rooms[c].maxParticipants
       /\ totalVotes[c] = rooms[c].participantCount
       /\ AllHaveVoted(c)

====
